---------------------------- MODULE Spec2Model ----------------------------
(***************************************************************************)
(* A model of the schema-directed ASN.1 decoder (package asn1): the        *)
(* annotation parser (options.go), the Context and its choice registry     *)
(* (context.go), and the SEQUENCE / SET / CHOICE matching engine           *)
(* (decode.go, asn1.go).                                                   *)
(*                                                                         *)
(* Conventions.                                                            *)
(*  - A Go pointer that may be nil is a sequence of length 0 (nil) or 1.   *)
(*  - An error is the name of its Go type: "nil", "SyntaxError",           *)
(*    "ParseError", or "error" for a plain fmt.Errorf value.               *)
(*  - An annotation string is given as the result of the two splits the    *)
(*    parser applies to it: a sequence of tokens (strings.Split on ","),   *)
(*    each the sequence of its trimmed arguments (strings.Split on ":").   *)
(*  - A byte string is given as the sequence of the TLVs framed in it; a   *)
(*    TLV's content is either a primitive value or a sequence of TLVs.     *)
(***************************************************************************)
EXTENDS Integers, Sequences, FiniteSets, TLC

\* The Context (choices, der, logger); the last operation, its arguments
\* and what it returned (op, call, res); and the argument of the parse or
\* decode calls of a behaviour (input).
VARIABLES choices, der, logger, op, call, res, input

vars == <<choices, der, logger, op, call, res, input>>

Nil == <<>>
Some(x) == <<x>>

\* ------------------------------------------------------------ bounds
MaxTokens == 2
MaxVariants == 2
MaxRaw == 2

\* -------------------------------------------------- options.go
NoOptions ==
  [universal |-> FALSE, application |-> FALSE, explicit |-> FALSE,
   indefinite |-> FALSE, optional |-> FALSE, set |-> FALSE,
   tag |-> Nil, defaultValue |-> Nil, choice |-> Nil]

\* strconv.Atoi on the argument strings the model uses.
Numerals == {"0", "1", "5", "-1", "300"}

Atoi(s) ==
  CASE s = "0" -> 0
    [] s = "1" -> 1
    [] s = "5" -> 5
    [] s = "-1" -> 0 - 1
    [] s = "300" -> 300
    [] OTHER -> 0

validateNoTagSign(opts) ==
  IF opts.universal /\ opts.tag = Nil THEN "SyntaxError"
  ELSE IF opts.application /\ opts.tag = Nil THEN "SyntaxError"
  ELSE IF opts.choice # Nil /\ opts.choice[1] = "" THEN "SyntaxError"
  ELSE "nil"

validate(opts) ==
  IF opts.universal /\ opts.tag = Nil THEN "SyntaxError"
  ELSE IF opts.application /\ opts.tag = Nil THEN "SyntaxError"
  ELSE IF opts.tag # Nil /\ opts.tag[1] < 0 THEN "SyntaxError"
  ELSE IF opts.choice # Nil /\ opts.choice[1] = "" THEN "SyntaxError"
  ELSE "nil"

parseBoolOption(args) ==
  IF Len(args) > 1 THEN [err |-> "SyntaxError", v |-> FALSE]
  ELSE [err |-> "nil", v |-> TRUE]

parseIntOption(args) ==
  IF Len(args) # 2 THEN [err |-> "SyntaxError", v |-> Nil]
  ELSE IF args[2] \notin Numerals THEN [err |-> "SyntaxError", v |-> Nil]
  ELSE [err |-> "nil", v |-> Some(Atoi(args[2]))]

parseStringOption(args) ==
  IF Len(args) # 2 THEN [err |-> "SyntaxError", v |-> Nil]
  ELSE [err |-> "nil", v |-> Some(args[2])]

\* One token: the error and the option record after the assignment.
parseOption(opts, args) ==
  LET b == parseBoolOption(args)
      n == parseIntOption(args)
      s == parseStringOption(args)
  IN CASE args[1] = "" -> [err |-> "nil", opts |-> opts]
       [] args[1] = "universal" ->
            [err |-> b.err, opts |-> [opts EXCEPT !.universal = b.v]]
       [] args[1] = "application" ->
            [err |-> b.err, opts |-> [opts EXCEPT !.application = b.v]]
       [] args[1] = "explicit" ->
            [err |-> b.err, opts |-> [opts EXCEPT !.explicit = b.v]]
       [] args[1] = "indefinite" ->
            [err |-> b.err, opts |-> [opts EXCEPT !.indefinite = b.v]]
       [] args[1] = "optional" ->
            [err |-> b.err, opts |-> [opts EXCEPT !.optional = b.v]]
       [] args[1] = "set" ->
            [err |-> b.err, opts |-> [opts EXCEPT !.set = b.v]]
       [] args[1] = "tag" ->
            [err |-> n.err, opts |-> [opts EXCEPT !.tag = n.v]]
       [] args[1] = "default" ->
            [err |-> n.err, opts |-> [opts EXCEPT !.defaultValue = n.v]]
       [] args[1] = "choice" ->
            [err |-> s.err, opts |-> [opts EXCEPT !.choice = s.v]]
       [] OTHER -> [err |-> "SyntaxError", opts |-> opts]

RECURSIVE parseTokens(_, _, _)
parseTokens(s, i, opts) ==
  IF i > Len(s) THEN [err |-> "nil", opts |-> opts]
  ELSE LET r == parseOption(opts, s[i])
       IN IF r.err # "nil" THEN [err |-> r.err, opts |-> Nil]
          ELSE parseTokens(s, i + 1, r.opts)

\* The option record as a pointer: Nil with an error, Some(record) without.
parseOptions(s) ==
  LET r == parseTokens(s, 1, NoOptions)
  IN IF r.err # "nil" THEN [err |-> r.err, opts |-> Nil]
     ELSE IF validate(r.opts) # "nil"
          THEN [err |-> validate(r.opts), opts |-> Nil]
          ELSE [err |-> "nil", opts |-> Some(r.opts)]

\* Annotations of the model: every token a name, a name with one argument
\* or a name with two.
OptionNames ==
  {"", "universal", "application", "explicit", "indefinite", "optional",
   "set", "tag", "default", "choice", "bogus"}

ArgStrings == {"5", "-1", "x", ""}

Tokens ==
  {<<n>> : n \in OptionNames}
    \cup {<<n, a>> : n \in {"tag", "default", "choice", "universal"},
                     a \in ArgStrings}
    \cup {<<"choice", "x", "5">>}

RECURSIVE SeqsUpTo(_, _)
SeqsUpTo(S, n) ==
  IF n = 0 THEN {<<>>}
  ELSE LET shorter == SeqsUpTo(S, n - 1)
       IN shorter \cup {Append(q, x) : q \in {p \in shorter : Len(p) = n - 1},
                                       x \in S}

\* strings.Split never returns an empty slice: an annotation has a token.
Annotations == SeqsUpTo(Tokens, MaxTokens) \ {<<>>}

\* -------------------------------------------------- context.go
ChoiceNames == {"x", "y"}

NewContext ==
  /\ choices = [n \in ChoiceNames |-> <<>>]
  /\ der = [encoding |-> TRUE, decoding |-> FALSE]
  /\ logger = "discard"

\* Go types of the model: name |-> kind, element type, fields. A field is
\* its type and its struct tag (an annotation).
A_none == << <<"">> >>
A_optional == << <<"optional">> >>
A_default5 == << <<"default", "5">> >>
A_defaultNeg == << <<"default", "-1">> >>
A_tag0 == << <<"tag", "0">> >>
A_tag0_optional == << <<"tag", "0">>, <<"optional">> >>
A_explicit_tag1 == << <<"explicit">>, <<"tag", "1">> >>
A_choice_x == << <<"choice", "x">> >>
A_choice_nested == << <<"choice", "y">> >>
A_bogus == << <<"bogus">> >>
A_set == << <<"set">> >>

Field(t, a) == [typ |-> t, tag |-> a]

TypeDef(t) ==
  CASE t = "int" -> [kind |-> "Int", elem |-> "", fields |-> <<>>]
    [] t = "uint8" -> [kind |-> "Uint8", elem |-> "", fields |-> <<>>]
    [] t = "bool" -> [kind |-> "Bool", elem |-> "", fields |-> <<>>]
    [] t = "float64" -> [kind |-> "Float64", elem |-> "", fields |-> <<>>]
    [] t = "iface" -> [kind |-> "Interface", elem |-> "", fields |-> <<>>]
    [] t = "IntSlice" -> [kind |-> "Slice", elem |-> "int", fields |-> <<>>]
    [] t = "Empty" -> [kind |-> "Struct", elem |-> "", fields |-> <<>>]
    [] t = "Rec" ->
         [kind |-> "Struct", elem |-> "",
          fields |-> <<Field("int", A_none), Field("int", A_optional),
                       Field("int", A_default5)>>]
    [] t = "Pair" ->
         [kind |-> "Struct", elem |-> "",
          fields |-> <<Field("int", A_optional),
                       Field("int", A_tag0_optional)>>]
    [] t = "Req" ->
         [kind |-> "Struct", elem |-> "",
          fields |-> <<Field("int", A_none),
                       Field("int", A_tag0_optional)>>]
    [] t = "Inner" ->
         [kind |-> "Struct", elem |-> "",
          fields |-> <<Field("int", A_none)>>]
    [] t = "Outer" ->
         [kind |-> "Struct", elem |-> "",
          fields |-> <<Field("Inner", A_none)>>]
    [] t = "Ch1" ->
         [kind |-> "Struct", elem |-> "",
          fields |-> <<Field("iface", A_choice_x), Field("int", A_optional)>>]
    [] t = "Ch2" ->
         [kind |-> "Struct", elem |-> "",
          fields |-> <<Field("iface", A_choice_x),
                       Field("iface", A_choice_x)>>]
    [] t = "DefBool" ->
         [kind |-> "Struct", elem |-> "",
          fields |-> <<Field("bool", A_default5)>>]
    [] t = "DefU8" ->
         [kind |-> "Struct", elem |-> "",
          fields |-> <<Field("uint8", A_defaultNeg)>>]

\* Classes and universal tags (X.690).
ClassUniversal == 0
ClassApplication == 1
ClassContextSpecific == 2
ClassPrivate == 3
TagBoolean == 1
TagInteger == 2
TagSequence == 16
TagSet == 17

\* A decoderFunction value: fn names the function ("nil": the nil func).
\* The explicit-wrapper closure captures the pointer opts: a record of the
\* call (opts) or the record of a registry entry (ref = <<name, index>>).
\* The choice closure captures the choiceEntry it dispatches to.
Decoder(fn) == [fn |-> fn, opts |-> Nil, ref |-> Nil, entry |-> Nil]
ExplicitDecoder(opts, ref) ==
  [fn |-> "explicit", opts |-> IF ref = Nil THEN Some(opts) ELSE Nil,
   ref |-> ref, entry |-> Nil]
ChoiceDecoder(entry) ==
  [fn |-> "choice", opts |-> Nil, ref |-> Nil, entry |-> Some(entry)]

\* -------------------------------------------------- decode.go: resolver
getUniversalTag(objType, opts) ==
  LET k == TypeDef(objType).kind
      base ==
        CASE k = "Bool" -> [tag |-> TagBoolean, decoder |-> Decoder("decodeBool")]
          [] k = "Int" -> [tag |-> TagInteger, decoder |-> Decoder("decodeInt")]
          [] k = "Uint8" -> [tag |-> TagInteger, decoder |-> Decoder("decodeUint")]
          [] k = "Struct" ->
               [tag |-> TagSequence,
                decoder |-> IF opts.set THEN Decoder("decodeStructAsSet")
                            ELSE Decoder("decodeStruct")]
          [] k = "Slice" -> [tag |-> TagSequence, decoder |-> Decoder("decodeSlice")]
          [] OTHER -> [tag |-> 0, decoder |-> Decoder("nil")]
  IN [err |-> IF opts.set /\ base.tag # TagSequence THEN "SyntaxError" ELSE "nil",
      class |-> ClassUniversal,
      tag |-> IF opts.set THEN TagSet ELSE base.tag,
      decoder |-> base.decoder]

getChoices(chs, choice) ==
  IF choice \notin DOMAIN chs \/ chs[choice] = <<>>
  THEN [err |-> "SyntaxError", entries |-> <<>>]
  ELSE [err |-> "nil", entries |-> chs[choice]]

getChoiceByTag(chs, choice, class, tag) ==
  LET found(g) ==
        LET hits == {i \in 1..Len(g.entries) :
                       g.entries[i].class = class /\ g.entries[i].tag = tag}
        IN IF g.err # "nil" THEN [err |-> g.err, entry |-> Nil]
           ELSE IF hits = {} THEN [err |-> "SyntaxError", entry |-> Nil]
           ELSE [err |-> "nil",
                 entry |-> Some(g.entries[CHOOSE i \in hits :
                                            \A j \in hits : i <= j])]
  IN found(getChoices(chs, choice))

\* raw is the hint [Class, Tag]; ref tells where the record opts points to
\* lives (Nil: a record of the call).
getExpectedElement(chs, raw, elemType, opts, ref) ==
  LET modified(u) ==
        LET c1 == IF opts.tag # Nil THEN ClassContextSpecific ELSE u.class
            t1 == IF opts.tag # Nil THEN opts.tag[1] ELSE u.tag
            c2 == IF opts.universal THEN ClassUniversal ELSE c1
            c3 == IF opts.application THEN ClassApplication ELSE c2
            chosen(hit) ==
              IF hit.err # "nil"
              THEN [err |-> hit.err, class |-> c3, tag |-> t1, decoder |-> u.decoder]
              ELSE [err |-> "nil", class |-> raw.Class, tag |-> raw.Tag,
                    decoder |-> ChoiceDecoder(hit.entry[1])]
        IN IF u.err # "nil"
           THEN [err |-> u.err, class |-> u.class, tag |-> u.tag,
                 decoder |-> u.decoder]
           ELSE IF opts.explicit
           THEN [err |-> "nil", class |-> c3, tag |-> t1,
                 decoder |-> ExplicitDecoder(opts, ref)]
           ELSE IF opts.choice # Nil
           THEN chosen(getChoiceByTag(chs, opts.choice[1], raw.Class, raw.Tag))
           ELSE IF u.decoder.fn = "nil"
           THEN [err |-> "ParseError", class |-> c3, tag |-> t1,
                 decoder |-> u.decoder]
           ELSE [err |-> "nil", class |-> c3, tag |-> t1, decoder |-> u.decoder]
  IN modified(getUniversalTag(elemType, opts))

\* -------------------------------------------------- context.go: registry
addChoiceEntryNoCheck(chs, choice, entry) ==
  [err |-> "nil", choices |-> [chs EXCEPT ![choice] = Append(@, entry)]]

addChoiceEntry(chs, choice, entry) ==
  IF \E i \in 1..Len(chs[choice]) :
       chs[choice][i].class = entry.class /\ chs[choice][i].tag = entry.tag
  THEN [err |-> "error", choices |-> chs]
  ELSE [err |-> "nil", choices |-> [chs EXCEPT ![choice] = Append(@, entry)]]

\* The loop of AddChoice from entry i on: the error returned and the
\* registry as the loop left it.
RECURSIVE AddChoiceFrom(_, _, _, _)
AddChoiceFrom(chs, choice, entries, i) ==
  IF i > Len(entries) THEN [err |-> "nil", choices |-> chs]
  ELSE
    LET e == entries[i]
        ref == Some(<<choice, Len(chs[choice]) + 1>>)
        added(r) ==
          IF r.err # "nil" THEN [err |-> r.err, choices |-> chs]
          ELSE AddChoiceFrom(r.choices, choice, entries, i + 1)
        resolved(opts, elem) ==
          IF elem.err # "nil" THEN [err |-> elem.err, choices |-> chs]
          ELSE added(addChoiceEntry(chs, choice,
                       [class |-> elem.class, tag |-> elem.tag,
                        decoder |-> elem.decoder, typ |-> e.Type,
                        opts |-> opts]))
        parsed(p) ==
          IF p.err # "nil" THEN [err |-> p.err, choices |-> chs]
          ELSE IF p.opts[1].choice # Nil
          THEN [err |-> "SyntaxError", choices |-> chs]
          ELSE resolved(p.opts[1],
                        getExpectedElement(chs, [Class |-> 0, Tag |-> 0],
                                           e.Type, p.opts[1], ref))
    IN parsed(parseOptions(e.Options))

Choice(t, a) == [Type |-> t, Options |-> a]

AddChoice(choice, entries) ==
  LET returned(r) ==
        /\ choices' = r.choices
        /\ res' = [err |-> r.err, before |-> choices[choice]]
  IN /\ returned(AddChoiceFrom(choices, choice, entries, 1))
     /\ op' = "AddChoice"
     /\ call' = [choice |-> choice, entries |-> entries]
     /\ UNCHANGED <<der, logger, input>>

SetDer(encoding, decoding) ==
  /\ der' = [encoding |-> encoding, decoding |-> decoding]
  /\ op' = "SetDer"
  /\ call' = Nil
  /\ res' = Nil
  /\ UNCHANGED <<choices, logger, input>>

\* A nil logger installs the discarding default.
SetLogger(l) ==
  /\ logger' = IF l = "nil" THEN "discard" ELSE l
  /\ op' = "SetLogger"
  /\ call' = Nil
  /\ res' = Nil
  /\ UNCHANGED <<choices, der, input>>

\* -------------------------------------------------- values and wire data
\* A Go value: its kind, an integer (Int, Uint8, Bool) and its elements
\* (struct fields, slice elements).
V(k, i, s) == [k |-> k, i |-> i, s |-> s]

\* reflect.New(t).Elem(): the zero value of a type.
RECURSIVE Zero(_)
Zero(t) ==
  LET d == TypeDef(t)
  IN CASE d.kind = "Struct" ->
            V("struct", 0, [i \in 1..Len(d.fields) |-> Zero(d.fields[i].typ)])
       [] d.kind = "Slice" -> V("slice", 0, <<>>)
       [] d.kind = "Interface" -> V("nil", 0, <<>>)
       [] d.kind = "Bool" -> V("bool", 0, <<>>)
       [] d.kind = "Float64" -> V("float", 0, <<>>)
       [] OTHER -> V("int", 0, <<>>)

\* Content bytes: a primitive value (one content octet) or framed TLVs.
Prim(v) == [prim |-> TRUE, val |-> v, kids |-> <<>>]
Cons(kids) == [prim |-> FALSE, val |-> 0, kids |-> kids]
TLV(class, tag, indefinite, content) ==
  [Class |-> class, Tag |-> tag, Indefinite |-> indefinite, Content |-> content]

\* The TLVs framed in a content. A primitive content is one octet: an
\* identifier with no length after it, which any read finds truncated.
Truncated == TLV(0, 0, TRUE, Prim(0))

BytesOf(content) == IF content.prim THEN <<Truncated>> ELSE content.kids

\* The next raw TLV of a reader and the reader after it. An empty reader
\* is truncated input; an indefinite length needs the constructed bit.
decodeRawValue(reader) ==
  IF reader = <<>> THEN [err |-> "ParseError", raw |-> Nil, rest |-> <<>>]
  ELSE IF reader[1].Indefinite /\ reader[1].Content.prim
  THEN [err |-> "ParseError", raw |-> Nil, rest |-> <<>>]
  ELSE [err |-> "nil", raw |-> Some(reader[1]), rest |-> Tail(reader)]

\* What a decoder call reports: the error, the value stored in the target,
\* whether a raw value with Indefinite = TRUE was read, the registry
\* entries whose option record the call wrote to, and the runs of
\* matchExpectedValues it made.
Result(err, val, indef, touched, runs) ==
  [err |-> err, val |-> val, indef |-> indef, touched |-> touched, runs |-> runs]

Fail(err, val) == Result(err, val, FALSE, {}, <<>>)

\* A result of decode: with the bytes left in the reader.
WithRest(r, rest) ==
  [err |-> r.err, val |-> r.val, indef |-> r.indef, touched |-> r.touched,
   runs |-> r.runs, rest |-> rest]

\* Integer and boolean codecs: content of length zero or wider than the
\* target is rejected; any non-zero octet is TRUE.
decodeBool(content, value) ==
  IF ~content.prim THEN Fail("ParseError", value)
  ELSE Fail("nil", V("bool", IF content.val # 0 THEN 1 ELSE 0, <<>>))

decodeInt(content, value) ==
  IF ~content.prim THEN Fail("ParseError", value)
  ELSE Fail("nil", V("int", content.val, <<>>))

decodeUint(content, value) ==
  IF ~content.prim \/ content.val < 0 \/ content.val > 255
  THEN Fail("ParseError", value)
  ELSE Fail("nil", V("int", content.val, <<>>))

\* -------------------------------------------------- asn1.go
setDefaultValue(kind, value, opts) ==
  CASE kind = "Int" -> [err |-> "nil", val |-> V("int", opts.defaultValue[1], <<>>)]
    [] kind = "Uint8" ->
         [err |-> "nil", val |-> V("int", opts.defaultValue[1] % 256, <<>>)]
    [] OTHER -> [err |-> "SyntaxError", val |-> value]

\* -------------------------------------------------- decode.go: composites
\* sort.Sort by (class, tag); the slices of the model are short, for which
\* sort.Sort is an insertion sort and keeps equal keys in order.
KeyLess(a, b) == a[1] < b[1] \/ (a[1] = b[1] /\ a[2] < b[2])

SortByKey(s, keys) ==
  LET pos(i) == 1 + Cardinality({j \in 1..Len(s) :
                       KeyLess(keys[j], keys[i]) \/ (keys[j] = keys[i] /\ j < i)})
  IN [k \in 1..Len(s) |-> s[CHOOSE i \in 1..Len(s) : pos(i) = k]]

expectedFieldElementSlice(es) ==
  SortByKey(es, [i \in 1..Len(es) |-> <<es[i].class, es[i].tag>>])

rawValueSlice(rs) ==
  SortByKey(rs, [i \in 1..Len(rs) |-> <<rs[i].Class, rs[i].Tag>>])

\* An expected element of field i of a struct: value is the index of the
\* field it stores to.
EFE(elem, i, t, opts) ==
  [class |-> elem.class, tag |-> elem.tag, decoder |-> elem.decoder,
   value |-> i, typ |-> t, opts |-> opts]

\* The expansion of a choice field: one element per registered entry.
RECURSIVE choiceElements(_, _, _, _, _, _)
choiceElements(chs, f, i, opts, k, acc) ==
  IF k > Len(chs[opts.choice[1]]) THEN [err |-> "nil", elems |-> acc]
  ELSE
    LET entry == chs[opts.choice[1]][k]
        got(e) ==
          IF e.err # "nil" THEN [err |-> e.err, elems |-> <<>>]
          ELSE choiceElements(chs, f, i, opts, k + 1,
                              Append(acc, EFE(e, i, f.typ, opts)))
    IN got(getExpectedElement(chs, [Class |-> entry.class, Tag |-> entry.tag],
                              f.typ, opts, Nil))

\* The expected elements of field i.
fieldElements(ctx, t, i) ==
  LET f == TypeDef(t).fields[i]
      single(opts, e) ==
        IF e.err # "nil" THEN [err |-> e.err, elems |-> <<>>]
        ELSE [err |-> "nil", elems |-> <<EFE(e, i, f.typ, opts)>>]
      expanded(opts, g) ==
        IF g.err # "nil" THEN [err |-> g.err, elems |-> <<>>]
        ELSE choiceElements(ctx.choices, f, i, opts, 1, <<>>)
      parsed(p) ==
        IF p.err # "nil" THEN [err |-> p.err, elems |-> <<>>]
        ELSE IF p.opts[1].choice = Nil
        THEN single(p.opts[1],
                    getExpectedElement(ctx.choices, [Class |-> 0, Tag |-> 0],
                                       f.typ, p.opts[1], Nil))
        ELSE expanded(p.opts[1], getChoices(ctx.choices, p.opts[1].choice[1]))
  IN parsed(parseOptions(f.tag))

RECURSIVE expectedFrom(_, _, _, _)
expectedFrom(ctx, t, i, acc) ==
  IF i > Len(TypeDef(t).fields) THEN [err |-> "nil", elems |-> acc]
  ELSE LET got(r) ==
             IF r.err # "nil" THEN [err |-> r.err, elems |-> <<>>]
             ELSE expectedFrom(ctx, t, i + 1, acc \o r.elems)
       IN got(fieldElements(ctx, t, i))

getExpectedFieldElements(ctx, t) == expectedFrom(ctx, t, 1, <<>>)

RECURSIVE rawValuesFrom(_, _, _, _)
rawValuesFrom(reader, i, max, acc) ==
  IF i >= max THEN [err |-> "ParseError", raws |-> <<>>]
  ELSE LET r == decodeRawValue(reader)
       IN IF r.err # "nil" THEN [err |-> r.err, raws |-> <<>>]
          ELSE IF r.rest = <<>> THEN [err |-> "nil", raws |-> Append(acc, r.raw[1])]
          ELSE rawValuesFrom(r.rest, i + 1, max, Append(acc, r.raw[1]))

\* data is the sequence of TLVs framed in the bytes.
getRawValuesFromBytes(data, max) == rawValuesFrom(data, 0, max, <<>>)

\* What one run of matchExpectedValues did: the expected elements and raw
\* values it was given, the pairs <<expected index, raw index>> it
\* decoded, the expected elements whose decoder it set to nil, the raw
\* index it ended with, the struct before and after, its error, and the
\* expected index it returned at (past the last one on success).
Run(eValues, rValues, st, err, at) ==
  [elems |-> [i \in 1..Len(eValues) |->
                [class |-> eValues[i].class, tag |-> eValues[i].tag,
                 value |-> eValues[i].value, typ |-> eValues[i].typ,
                 opts |-> eValues[i].opts]],
   raws |-> [i \in 1..Len(rValues) |->
               [Class |-> rValues[i].Class, Tag |-> rValues[i].Tag]],
   matches |-> st.matches, nilled |-> st.nilled, rIndex |-> st.rIndex,
   before |-> st.before, after |-> st.val, err |-> err, at |-> at]

RECURSIVE decode(_, _, _, _, _, _)
RECURSIVE callDecoder(_, _, _, _, _)
RECURSIVE matchFrom(_, _, _, _, _)
RECURSIVE sliceFrom(_, _, _, _)
RECURSIVE DecodeWithOptions(_, _, _, _, _, _)

\* After a match of element eIndex: the later elements with its choice name.
invalidatedNone(eValues, eIndex) == {}

invalidated(eValues, eIndex) ==
  IF eValues[eIndex].opts.choice = Nil THEN {}
  ELSE {i \in (eIndex + 1)..Len(eValues) :
          /\ eValues[i].opts.choice # Nil
          /\ eValues[i].opts.choice[1] = eValues[eIndex].opts.choice[1]}

\* The missing element of a run: skipped, defaulted, or an error.
missingElementSkipsDefault(e, val) ==
  IF e.opts.optional \/ e.opts.choice # Nil \/ e.opts.defaultValue # Nil
  THEN [err |-> "nil", val |-> val]
  ELSE [err |-> "ParseError", val |-> val]

missingElement(e, val) ==
  LET set(d) ==
        [err |-> d.err,
         val |-> IF d.err = "nil" THEN [val EXCEPT !.s[e.value] = d.val] ELSE val]
  IN IF e.opts.optional \/ e.opts.choice # Nil THEN [err |-> "nil", val |-> val]
     ELSE IF e.opts.defaultValue # Nil
     THEN set(setDefaultValue(TypeDef(e.typ).kind, val.s[e.value], e.opts))
     ELSE [err |-> "ParseError", val |-> val]

\* The loop of matchExpectedValues from expected element eIndex on. st is
\* the loop's state: rIndex (from 1), the struct value, and the record of
\* the run so far.
matchFrom(ctx, eValues, rValues, eIndex, st) ==
  IF eIndex > Len(eValues)
  THEN Result("nil", st.val, st.indef, st.touched,
              Append(st.runs, Run(eValues, rValues, st, "nil", eIndex)))
  ELSE
    LET e == eValues[eIndex]
        failed(s, err) ==
          Result(err, s.val, s.indef, s.touched,
                 Append(s.runs, Run(eValues, rValues, s, err, eIndex)))
        decoded(r) ==
          LET st1 == [st EXCEPT !.indef = @ \/ r.indef,
                                !.touched = @ \cup r.touched,
                                !.runs = @ \o r.runs]
          IN IF r.err # "nil" THEN failed(st1, r.err)
             ELSE matchFrom(ctx, eValues, rValues, eIndex + 1,
                    [st1 EXCEPT !.val.s[e.value] = r.val,
                                !.rIndex = @ + 1,
                                !.matches = Append(@, <<eIndex, st.rIndex>>),
                                !.nilled = @ \cup invalidated(eValues, eIndex)])
        missing(m) ==
          IF m.err # "nil" THEN failed(st, m.err)
          ELSE matchFrom(ctx, eValues, rValues, eIndex + 1,
                         [st EXCEPT !.val = m.val])
    IN IF eIndex \in st.nilled
       THEN matchFrom(ctx, eValues, rValues, eIndex + 1, st)
       ELSE IF /\ st.rIndex <= Len(rValues)
               /\ e.class = rValues[st.rIndex].Class
               /\ e.tag = rValues[st.rIndex].Tag
       THEN decoded(callDecoder(ctx, e.decoder, rValues[st.rIndex].Content,
                                e.typ, st.val.s[e.value]))
       ELSE missing(missingElement(e, st.val))

matchExpectedValues(ctx, eValues, rValues, value) ==
  matchFrom(ctx, eValues, rValues, 1,
            [rIndex |-> 1, val |-> value, before |-> value, matches |-> <<>>,
             nilled |-> {},
             indef |-> \E i \in 1..Len(rValues) : rValues[i].Indefinite,
             touched |-> {}, runs |-> <<>>])

decodeStruct(ctx, content, t, value) ==
  LET read(ev, rv) ==
        IF rv.err # "nil" THEN Fail(rv.err, value)
        ELSE matchExpectedValues(ctx, ev.elems, rv.raws, value)
      expected(ev) ==
        IF ev.err # "nil" THEN Fail(ev.err, value)
        ELSE read(ev, getRawValuesFromBytes(BytesOf(content), Len(ev.elems)))
  IN expected(getExpectedFieldElements(ctx, t))

\* Under DER the raw values are matched in the order transmitted.
rawOrder(ctx, rvs) == IF ~ctx.der.decoding THEN rawValueSlice(rvs) ELSE rvs

decodeStructAsSet(ctx, content, t, value) ==
  LET read(sorted, rv) ==
        IF rv.err # "nil" THEN Fail(rv.err, value)
        ELSE matchExpectedValues(ctx, sorted, rawOrder(ctx, rv.raws), value)
      checked(sorted) ==
        IF \E i \in 2..Len(sorted) :
             /\ sorted[i].class = sorted[i - 1].class
             /\ sorted[i].tag = sorted[i - 1].tag
        THEN Fail("SyntaxError", value)
        ELSE read(sorted, getRawValuesFromBytes(BytesOf(content), Len(sorted)))
      expected(ev) ==
        IF ev.err # "nil" THEN Fail(ev.err, value)
        ELSE checked(expectedFieldElementSlice(ev.elems))
  IN expected(getExpectedFieldElements(ctx, t))

\* The loop of decodeSlice: acc is the result so far, its value the slice
\* built so far.
sliceFrom(ctx, data, t, acc) ==
  IF data = <<>> THEN acc
  ELSE
    LET decoded(r) ==
          LET acc1 == Result(r.err, acc.val, acc.indef \/ r.indef,
                             acc.touched \cup r.touched, acc.runs \o r.runs)
          IN IF r.err # "nil" THEN acc1
             ELSE sliceFrom(ctx, r.rest, t,
                            [acc1 EXCEPT !.val.s = Append(@, r.val)])
    IN decoded(DecodeWithOptions(ctx, data, TypeDef(t).elem,
                                 Zero(TypeDef(t).elem), TRUE, A_none))

decodeSlice(ctx, content, t, value) ==
  LET done(r) == IF r.err # "nil" THEN [r EXCEPT !.val = value] ELSE r
  IN done(sliceFrom(ctx, BytesOf(content), t, Fail("nil", Zero(t))))

\* The wrapper installed for the explicit option: it clears explicit, tag
\* and application in the record opts points to and decodes the child.
explicitDecoder(ctx, d, content, t, value) ==
  LET opts == IF d.ref = Nil THEN d.opts[1]
              ELSE ctx.choices[d.ref[1][1]][d.ref[1][2]].opts
      wrote == IF d.ref = Nil THEN {} ELSE {d.ref[1]}
      done(r) == Result(r.err, r.val, r.indef, r.touched \cup wrote, r.runs)
  IN done(decode(ctx, BytesOf(content), t, value,
                 [opts EXCEPT !.explicit = FALSE, !.tag = Nil,
                              !.application = FALSE],
                 d.ref))

\* The closure installed for the choice option: it decodes into a new
\* value of the entry's type and stores it in the target.
choiceDecoder(ctx, d, content, t, value) ==
  LET done(r) == IF r.err # "nil" THEN [r EXCEPT !.val = value] ELSE r
  IN done(callDecoder(ctx, d.entry[1].decoder, content, d.entry[1].typ,
                      Zero(d.entry[1].typ)))

callDecoder(ctx, d, content, t, value) ==
  CASE d.fn = "decodeBool" -> decodeBool(content, value)
    [] d.fn = "decodeInt" -> decodeInt(content, value)
    [] d.fn = "decodeUint" -> decodeUint(content, value)
    [] d.fn = "decodeStruct" -> decodeStruct(ctx, content, t, value)
    [] d.fn = "decodeStructAsSet" -> decodeStructAsSet(ctx, content, t, value)
    [] d.fn = "decodeSlice" -> decodeSlice(ctx, content, t, value)
    [] d.fn = "explicit" -> explicitDecoder(ctx, d, content, t, value)
    [] d.fn = "choice" -> choiceDecoder(ctx, d, content, t, value)

\* The check of the indefinite form made by decode under DER.
rejectsIndefinite(ctx, raw) == ctx.der.decoding /\ raw.Indefinite

decode(ctx, reader, t, value, opts, ref) ==
  LET here(raw, rest, x) ==
        WithRest([x EXCEPT !.indef = @ \/ raw.Indefinite], rest)
      resolved(raw, rest, elem) ==
        IF elem.err # "nil" THEN here(raw, rest, Fail(elem.err, value))
        ELSE IF raw.Class # elem.class \/ raw.Tag # elem.tag
        THEN here(raw, rest, Fail("ParseError", value))
        ELSE here(raw, rest, callDecoder(ctx, elem.decoder, raw.Content, t, value))
      read(rr) ==
        IF rr.err # "nil" THEN WithRest(Fail(rr.err, value), <<>>)
        ELSE IF rejectsIndefinite(ctx, rr.raw[1])
        THEN here(rr.raw[1], rr.rest, Fail("ParseError", value))
        ELSE resolved(rr.raw[1], rr.rest,
                      getExpectedElement(ctx.choices, rr.raw[1], t, opts, ref))
  IN read(decodeRawValue(reader))

DecodeWithOptions(ctx, data, t, value, canSet, options) ==
  LET parsed(p) ==
        IF p.err # "nil" THEN WithRest(Fail(p.err, value), <<>>)
        ELSE IF ~canSet THEN WithRest(Fail("SyntaxError", value), <<>>)
        ELSE decode(ctx, data, t, value, p.opts[1], Nil)
  IN parsed(parseOptions(options))

\* ------------------------------------- specification: choice registration
Variants ==
  {Choice("int", A_none), Choice("uint8", A_none), Choice("int", A_tag0),
   Choice("float64", A_none), Choice("int", A_choice_nested)}

InitReg ==
  /\ NewContext
  /\ op = "init"
  /\ call = Nil
  /\ res = Nil
  /\ input = Nil

NextReg ==
  \E n \in ChoiceNames, es \in SeqsUpTo(Variants, MaxVariants) : AddChoice(n, es)

SpecReg == InitReg /\ [][NextReg]_vars

\* The (class, tag) a variant resolves to, Nil when it does not resolve.
Resolved(v) ==
  LET p == parseOptions(v.Options)
      e == getExpectedElement([n \in ChoiceNames |-> <<>>],
                              [Class |-> 0, Tag |-> 0], v.Type, p.opts[1], Nil)
  IN IF p.err # "nil" \/ e.err # "nil" THEN Nil ELSE Some(<<e.class, e.tag>>)

\* C1: under one choice name no two registry entries have the same
\* (class, tag), and an AddChoice call with a variant whose resolved
\* (class, tag) is that of an entry registered before the call, or of an
\* earlier variant of the call, returns an error.
C1_ChoiceTagsUnique ==
  /\ \A n \in ChoiceNames : \A i, j \in 1..Len(choices[n]) :
       (choices[n][i].class = choices[n][j].class
          /\ choices[n][i].tag = choices[n][j].tag) => i = j
  /\ op = "AddChoice" =>
       ((\E i \in 1..Len(call.entries) :
           /\ Resolved(call.entries[i]) # Nil
           /\ \/ \E k \in 1..Len(res.before) :
                   Resolved(call.entries[i]) =
                     Some(<<res.before[k].class, res.before[k].tag>>)
              \/ \E j \in 1..(i - 1) :
                   Resolved(call.entries[j]) = Resolved(call.entries[i]))
        => res.err # "nil")

\* C1 witness: a call with a variant that duplicated a registered entry
\* has failed, with two entries registered under the name.
C1_Witness ==
  /\ op = "AddChoice"
  /\ res.err = "error"
  /\ Len(res.before) = 2
  /\ Len(choices[call.choice]) = 2

\* C7: every error AddChoice returns is a SyntaxError.
C7_AddChoiceErrorsAreSyntaxErrors ==
  op = "AddChoice" /\ res.err # "nil" => res.err = "SyntaxError"

\* C13: an AddChoice call that returns an error leaves the choice
\* registry as it was before the call.
C13_FailedAddChoiceRegistersNothing ==
  [][(op' = "AddChoice" /\ res'.err # "nil") => choices' = choices]_vars

\* ------------------------------------- specification: decoding
\* The byte strings of the model: one constructed TLV, of definite or
\* indefinite length, holding up to MaxRaw TLVs of an alphabet.
IntTLV(v) == TLV(ClassUniversal, TagInteger, FALSE, Prim(v))
Ctx0TLV(v) == TLV(ClassContextSpecific, 0, FALSE, Prim(v))
SeqTLV(indefinite, kids) == TLV(ClassUniversal, TagSequence, indefinite, Cons(kids))
SetTLV(indefinite, kids) == TLV(ClassUniversal, TagSet, indefinite, Cons(kids))
Ctx1TLV(indefinite, kids) == TLV(ClassContextSpecific, 1, indefinite, Cons(kids))

Leaves == {IntTLV(7), IntTLV(9), Ctx0TLV(7)}
Nested == {SeqTLV(i, <<IntTLV(7)>>) : i \in BOOLEAN}
Wrapped == {Ctx1TLV(i, <<IntTLV(7)>>) : i \in BOOLEAN}

Contents(alphabet) == SeqsUpTo(alphabet, MaxRaw)

\* A decode call: the target's type, the option string, the bytes.
Call(t, options, data) ==
  [typ |-> t, options |-> options, data |-> data, canSet |-> TRUE]

Calls ==
  {Call(t, A_none, <<SeqTLV(i, k)>>) :
     t \in {"Rec", "Pair", "DefBool", "DefU8", "Empty"},
     i \in BOOLEAN, k \in Contents(Leaves)}
  \cup {Call(t, A_set, <<SetTLV(i, k)>>) :
     t \in {"Pair", "Req"}, i \in BOOLEAN, k \in Contents(Leaves)}
  \cup {Call("Outer", A_none, <<SeqTLV(i, k)>>) :
     i \in BOOLEAN, k \in Contents(Nested)}
  \cup {Call(t, A_none, <<SeqTLV(i, k)>>) :
     t \in {"Ch1", "Ch2"}, i \in BOOLEAN,
     k \in Contents({IntTLV(7), IntTLV(9)} \cup Wrapped)}
  \cup {Call("iface", A_choice_x, <<x>>) : x \in Leaves \cup Wrapped}
  \cup {Call("int", A_explicit_tag1, <<Ctx1TLV(i, k)>>) :
     i \in BOOLEAN, k \in Contents({IntTLV(7)} \cup Nested)}
  \cup {Call("IntSlice", A_none, <<SeqTLV(i, k)>>) :
     i \in BOOLEAN, k \in Contents({IntTLV(7), IntTLV(9)} \cup Nested)}
  \cup {[Call("int", A_none, <<IntTLV(7)>>) EXCEPT !.canSet = FALSE],
        Call("int", A_bogus, <<IntTLV(7)>>),
        Call("float64", A_none, <<IntTLV(7)>>),
        Call("int", A_none, <<>>)}

\* The choice X ::= CHOICE { INTEGER, [1] EXPLICIT INTEGER } of the model.
SetupVariants == <<Choice("int", A_none), Choice("int", A_explicit_tag1)>>

InitDec ==
  /\ NewContext
  /\ op = "init"
  /\ call = Nil
  /\ res = Nil
  /\ input \in Calls

\* The writes of a decode call to the option records of registry entries.
clearTouched(chs, touched) ==
  [n \in DOMAIN chs |->
     [i \in 1..Len(chs[n]) |->
        IF <<n, i>> \in touched
        THEN [chs[n][i] EXCEPT !.opts.explicit = FALSE, !.opts.tag = Nil,
                               !.opts.application = FALSE]
        ELSE chs[n][i]]]

Decode ==
  LET returned(r) ==
        /\ res' = r
        /\ choices' = clearTouched(choices, r.touched)
  IN /\ returned(DecodeWithOptions([choices |-> choices, der |-> der],
                                   input.data, input.typ, Zero(input.typ),
                                   input.canSet, input.options))
     /\ op' = "Decode"
     /\ call' = input
     /\ UNCHANGED <<der, logger, input>>

NextDec ==
  \/ AddChoice("x", SetupVariants)
  \/ \E e, d \in BOOLEAN : SetDer(e, d)
  \/ \E l \in {"nil", "custom"} : SetLogger(l)
  \/ Decode

SpecDec == InitDec /\ [][NextDec]_vars

\* C3: with DER decoding enabled, a decode call that read a raw value with
\* Indefinite = TRUE, at any position of the input, returns a ParseError.
C3_DerRejectsIndefinite ==
  (op = "Decode" /\ der.decoding /\ res.indef) => res.err = "ParseError"

\* C4: a decode call that succeeds with der.decoding = TRUE succeeds on
\* the same input, schema and registry with der.decoding = FALSE and
\* stores the same value.
C4_DerAcceptedIsBerAccepted ==
  [][(op' = "Decode" /\ der.decoding /\ res'.err = "nil") =>
       LET ber(b) == b.err = "nil" /\ b.val = res'.val
       IN ber(DecodeWithOptions([choices |-> choices,
                                 der |-> [der EXCEPT !.decoding = FALSE]],
                                input.data, input.typ, Zero(input.typ),
                                input.canSet, input.options))]_vars

\* C5: a decode call changes neither the DER flags nor the choice
\* registry, the option record of every entry included.
C5_DecodeLeavesContextUnchanged ==
  [][op' = "Decode" => (choices' = choices /\ der' = der)]_vars

\* The expected elements a run found missing and passed: reached, not
\* invalidated, and not decoded.
Matched(run, i) == \E k \in 1..Len(run.matches) : run.matches[k][1] = i

Passed(run) ==
  {i \in 1..Len(run.elems) :
     i < run.at /\ i \notin run.nilled /\ ~Matched(run, i)}

\* The run returned an error at an element that was missing: the raw
\* values were exhausted or the current one has another (class, tag).
FailedMissing(run) ==
  /\ run.err # "nil"
  /\ ~(/\ run.rIndex <= Len(run.raws)
        /\ run.elems[run.at].class = run.raws[run.rIndex].Class
        /\ run.elems[run.at].tag = run.raws[run.rIndex].Tag)

\* No element of the run was decoded into the field of element i, and the
\* field is as it was.
FieldKept(run, i) ==
  (\A k \in 1..Len(run.matches) :
     run.elems[run.matches[k][1]].value # run.elems[i].value)
  => run.after.s[run.elems[i].value] = run.before.s[run.elems[i].value]

\* The spec's example: {a INTEGER, b INTEGER OPTIONAL, c INTEGER DEFAULT 5}
\* decoded from 30 03 02 01 07.
ExampleCall == Call("Rec", A_none, <<SeqTLV(FALSE, <<IntTLV(7)>>)>>)

ExampleDecoded ==
  (op = "Decode" /\ call = ExampleCall) =>
    /\ res.err = "nil"
    /\ res.val.s[1] = V("int", 7, <<>>)
    /\ res.val.s[2] = Zero("int")
    /\ res.val.s[3] = V("int", 5, <<>>)

\* C6 as stated: in every run of matchExpectedValues a missing element
\* that is optional or of a choice group is skipped with its field left
\* unchanged, any other missing element with a default has its field
\* assigned the default value, and a missing element with neither fails
\* the run with a ParseError; the example record decodes to a = 7, b
\* unchanged, c = 5.
C6_MissingElementAsStated ==
  /\ ExampleDecoded
  /\ op = "Decode" =>
       \A n \in 1..Len(res.runs) :
         LET run == res.runs[n]
         IN /\ \A i \in Passed(run) :
                 LET o == run.elems[i].opts
                 IN IF o.optional \/ o.choice # Nil THEN FieldKept(run, i)
                    ELSE /\ o.defaultValue # Nil
                         /\ run.after.s[run.elems[i].value]
                              = V("int", o.defaultValue[1], <<>>)
            /\ FailedMissing(run) =>
                 LET o == run.elems[run.at].opts
                 IN /\ ~o.optional
                    /\ o.choice = Nil
                    /\ o.defaultValue = Nil
                    /\ run.err = "ParseError"

\* The default as setDefaultValue stores it in a field of an integer kind.
IntegerKinds == {"Int", "Uint8"}

Converted(kind, d) == IF kind = "Uint8" THEN d % 256 ELSE d

\* C6 amended: in every run of matchExpectedValues a missing element that
\* is optional or of a choice group is skipped with its field left
\* unchanged; any other missing element with a default has a field of an
\* integer kind, which is assigned the default converted to the field's
\* type (an unsigned 8-bit field holds it modulo 256), or a field of
\* another kind, and then the run fails with a SyntaxError; a missing
\* element with neither fails the run with a ParseError; the example
\* record decodes to a = 7, b unchanged, c = 5.
C6_MissingElement ==
  /\ ExampleDecoded
  /\ op = "Decode" =>
       \A n \in 1..Len(res.runs) :
         LET run == res.runs[n]
         IN /\ \A i \in Passed(run) :
                 LET o == run.elems[i].opts
                     kind == TypeDef(run.elems[i].typ).kind
                 IN IF o.optional \/ o.choice # Nil THEN FieldKept(run, i)
                    ELSE /\ o.defaultValue # Nil
                         /\ kind \in IntegerKinds
                         /\ run.after.s[run.elems[i].value]
                              = V("int", Converted(kind, o.defaultValue[1]), <<>>)
            /\ FailedMissing(run) =>
                 LET o == run.elems[run.at].opts
                     kind == TypeDef(run.elems[run.at].typ).kind
                 IN /\ ~o.optional
                    /\ o.choice = Nil
                    /\ IF o.defaultValue = Nil THEN run.err = "ParseError"
                       ELSE kind \notin IntegerKinds /\ run.err = "SyntaxError"

\* C6 witness: the example record was decoded from the single INTEGER 7,
\* with b skipped and c assigned its default.
C6_Witness ==
  /\ op = "Decode"
  /\ call = ExampleCall
  /\ res.err = "nil"
  /\ Len(res.runs) = 1
  /\ Passed(res.runs[1]) = {2, 3}
  /\ res.val.s[3] = V("int", 5, <<>>)

\* C8: in every successful run of matchExpectedValues the k-th decoded
\* element was decoded from the k-th raw value, the decoded elements are
\* in expected order, the raw index ends one past the number of decoded
\* raw values and never exceeds their count by more than that, and no two
\* decoded elements are alternatives of one choice field.
C8_SingleIndexOneAlternative ==
  op = "Decode" =>
    \A n \in 1..Len(res.runs) :
      LET run == res.runs[n]
          m == run.matches
      IN run.err = "nil" =>
           /\ \A k \in 1..Len(m) : m[k][2] = k
           /\ \A k \in 1..(Len(m) - 1) : m[k][1] < m[k + 1][1]
           /\ run.rIndex = Len(m) + 1
           /\ run.rIndex <= Len(run.raws) + 1
           /\ \A j, k \in 1..Len(m) :
                (/\ run.elems[m[j][1]].opts.choice # Nil
                 /\ run.elems[m[j][1]].value = run.elems[m[k][1]].value)
                => j = k

\* C8 witness: a successful run decoded an alternative of a choice field
\* from the first raw value, set the decoder of a later alternative to
\* nil, and decoded the next field from the second raw value.
C8_Witness ==
  /\ op = "Decode"
  /\ res.err = "nil"
  /\ \E n \in 1..Len(res.runs) :
       /\ res.runs[n].err = "nil"
       /\ Len(res.runs[n].matches) = 2
       /\ res.runs[n].elems[res.runs[n].matches[1][1]].opts.choice # Nil
       /\ res.runs[n].nilled # {}

\* The element TLVs of a SET are not in ascending (class, tag) order.
OutOfOrder(kids) ==
  \E i \in 1..(Len(kids) - 1) :
    KeyLess(<<kids[i + 1].Class, kids[i + 1].Tag>>, <<kids[i].Class, kids[i].Tag>>)

\* C10: with DER decoding enabled, decoding a record as a SET from element
\* TLVs that are not in ascending (class, tag) order returns a ParseError.
C10_DerOutOfOrderSetFails ==
  (/\ op = "Decode"
   /\ der.decoding
   /\ call.options = A_set
   /\ OutOfOrder(call.data[1].Content.kids))
  => res.err = "ParseError"

\* C11: in every run of matchExpectedValues an element whose decoder was
\* set to nil shares its field with an earlier decoded element, so that a
\* record with two fields of one choice name, decoded from two raw values
\* of that choice, has its second field decoded from the second raw value.
C11_InvalidationWithinField ==
  op = "Decode" =>
    \A n \in 1..Len(res.runs) :
      LET run == res.runs[n]
      IN \A i \in run.nilled :
           \E k \in 1..Len(run.matches) :
             /\ run.matches[k][1] < i
             /\ run.elems[run.matches[k][1]].value = run.elems[i].value

\* C12: a decode call into a record decoded as a SEQUENCE, when it
\* succeeds, has decoded every raw value of every run of
\* matchExpectedValues into an expected element.
C12_EveryRawValueMatched ==
  (op = "Decode" /\ call.options # A_set /\ res.err = "nil") =>
    \A n \in 1..Len(res.runs) :
      Len(res.runs[n].matches) = Len(res.runs[n].raws)

\* ------------------------------------- specification: raw-value extraction
\* The content bytes and the counts of the model.
RawInputs ==
  {[data |-> d, max |-> m] : d \in Contents(Leaves \cup Nested), m \in 0..(MaxRaw + 1)}

InitRaw ==
  /\ NewContext
  /\ op = "init"
  /\ call = Nil
  /\ res = Nil
  /\ input \in RawInputs

GetRawValuesStep ==
  /\ op' = "getRawValuesFromBytes"
  /\ call' = input
  /\ res' = getRawValuesFromBytes(input.data, input.max)
  /\ UNCHANGED <<choices, der, logger, input>>

NextRaw == GetRawValuesStep

SpecRaw == InitRaw /\ [][NextRaw]_vars

\* C9: getRawValuesFromBytes(data, max) returns all the TLVs of data when
\* data holds at most max TLVs, empty data and max = 0 included, and
\* returns an error only when data holds more than max TLVs.
C9_RawValuesComplete ==
  op = "getRawValuesFromBytes" =>
    /\ Len(call.data) <= call.max => res = [err |-> "nil", raws |-> call.data]
    /\ res.err # "nil" => Len(call.data) > call.max

\* ------------------------------------- specification: annotation parsing
InitOpts ==
  /\ NewContext
  /\ op = "init"
  /\ call = Nil
  /\ res = Nil
  /\ input \in Annotations

ParseOptionsStep ==
  /\ op' = "parseOptions"
  /\ call' = input
  /\ res' = parseOptions(input)
  /\ UNCHANGED <<choices, der, logger, input>>

NextOpts == ParseOptionsStep

SpecOpts == InitOpts /\ [][NextOpts]_vars

\* C2: parseOptions either fails with a SyntaxError or returns an option
\* record in which universal implies a set tag, application implies a set
\* tag, a set tag is >= 0 and a set choice is not the empty string.
C2_ParseValidates ==
  op = "parseOptions" =>
    \/ res.err = "SyntaxError" /\ res.opts = Nil
    \/ /\ res.err = "nil"
       /\ res.opts # Nil
       /\ LET o == res.opts[1]
          IN /\ o.universal => o.tag # Nil
             /\ o.application => o.tag # Nil
             /\ o.tag # Nil => o.tag[1] >= 0
             /\ o.choice # Nil => o.choice[1] # ""

\* C2 witness: an annotation parsed to a record with a class override and
\* a tag.
C2_Witness ==
  /\ op = "parseOptions"
  /\ res.err = "nil"
  /\ res.opts[1].universal
  /\ res.opts[1].tag = Some(5)

=============================================================================
